---- MODULE Spec2Model ----
(***************************************************************************)
(* PoGit, pogit/writer.py: WriteSimulationFiles(objs) collects the         *)
(* template contributions of the simulation objects (obj.templates, built  *)
(* by the Laser and Particle constructors), merges them per template file, *)
(* renders each template once and writes the result to the PIConGPU input  *)
(* tree.                                                                   *)
(*                                                                         *)
(* Strings are sequences of one-character strings, so that str.split,      *)
(* str.replace, str.join and + are modelled by what they do.  A dict is a  *)
(* function whose DOMAIN is its key set; a list is a sequence.             *)
(* The Mako engine is outside the repository: the text that               *)
(* template.render returns for a context args is                           *)
(* the uninterpreted term [template |-> filename, args |-> args].          *)
(***************************************************************************)
EXTENDS Integers, Sequences, FiniteSets, TLC

\* ------------------------------------------------------------------ bounds

\* Largest number of contributions (over all objects) of a generated input.
MaxContribs == 3
\* Largest number of name pieces of a generated template file name.
MaxPieces == 3
\* Number of consecutive calls of WriteSimulationFiles that are followed.
MaxRuns == 2

\* ----------------------------------------------------------------- strings

NL == <<"\n">>
CommaNL == <<",", "\n">>
sRun == <<"r", "u", "n">>
sDot == <<".">>
sTemplate == <<"t", "e", "m", "p", "l", "a", "t", "e">>
sTempla == <<"t", "e", "m", "p", "l", "a">>
sTe == <<"t", "e">>
sCfg == <<"c", "f", "g">>
sParam == <<"p", "a", "r", "a", "m">>
sParticle == <<"p", "a", "r", "t", "i", "c", "l", "e">>
sDensity == <<"d", "e", "n", "s", "i", "t", "y">>
sRunner == <<"r", "u", "n", "n", "e", "r">>
sX == <<"X">>
sY == <<"Y">>
sEmpty == <<>>

\* The output folders of WriteSimulationFiles; a folder name is one symbol,
\* so that a path is the folder followed by the characters of the file name.
path_include == <<"./include/picongpu/param/">>
path_etc == <<"./etc/picongpu/">>

\* ------------------------------------------------------- Python primitives

EmptyDict == <<>>

\* s.split(sep)[0] for a one-character sep: the text before the first sep,
\* the whole of s when sep does not occur.
RECURSIVE SplitFirst(_, _)
SplitFirst(s, sep) ==
    IF s = <<>> \/ <<Head(s)>> = sep
    THEN <<>>
    ELSE <<Head(s)>> \o SplitFirst(Tail(s), sep)

\* s.replace(old, new): every occurrence of old, found left to right without
\* overlap, is replaced by new.
RECURSIVE StrReplace(_, _, _)
StrReplace(s, old, new) ==
    IF Len(s) < Len(old)
    THEN s
    ELSE IF SubSeq(s, 1, Len(old)) = old
         THEN new \o StrReplace(SubSeq(s, Len(old) + 1, Len(s)), old, new)
         ELSE <<Head(s)>> \o StrReplace(Tail(s), old, new)

\* sep.join(list)
RECURSIVE StrJoin(_, _)
StrJoin(sep, list) ==
    IF list = <<>>
    THEN <<>>
    ELSE IF Len(list) = 1
         THEN list[1]
         ELSE list[1] \o sep \o StrJoin(sep, Tail(list))

\* The dict display that unpacks low and then high: the keys of both, high
\* taking precedence.
DictUnion(low, high) ==
    [k \in DOMAIN low \cup DOMAIN high |->
        IF k \in DOMAIN high THEN high[k] ELSE low[k]]


\* ------------------------------------------------------------------ inputs

s1 == <<"1">>
s2 == <<"2">>

\* Template file names used by the objects of the generated inputs.
fRun == sRun \o sDot \o sTemplate
fParticle == sParticle \o sDot \o sTemplate
fParticleParam == sParticle \o sDot \o sParam
fDensity == sDensity \o sDot \o sTemplate
fRunner == sRunner \o sDot \o sTemplate
fRunX == sRun \o sDot \o <<"x">> \o sDot \o sTemplate

\* One entry of obj.templates: a dict with the key 'filename' and any of the
\* keys 'MainArgs', 'AppendableArgs', 'CommaAppendableArgs'.  The optional
\* buckets are given as a set holding the dict, or nothing.
Bucket(key, opt) ==
    IF opt = {} THEN EmptyDict ELSE key :> (CHOOSE d \in opt : TRUE)

ObjectTemplate(f, main, app, comma) ==
    ("filename" :> f) @@ Bucket("MainArgs", main)
        @@ Bucket("AppendableArgs", app)
        @@ Bucket("CommaAppendableArgs", comma)

SeqsUpTo(S, n) == UNION {[1..k -> S] : k \in 0..n}

\* The ways of giving the contributions of flat, in order, to objects.
RECURSIVE Groupings(_)
Groupings(flat) ==
    IF flat = <<>>
    THEN {<<>>}
    ELSE UNION {
           {<<[templates |-> SubSeq(flat, 1, k)]>> \o rest :
              rest \in Groupings(SubSeq(flat, k + 1, Len(flat)))} :
           k \in 1..Len(flat)}

OnePerObject(flat) == [k \in 1..Len(flat) |-> [templates |-> <<flat[k]>>]]

\* Inputs about the files: objects that contribute to several template files,
\* two of which ('particle.template', 'particle.param') have one destination.
FileTemplates ==
    {ObjectTemplate(f, {}, {"K" :> sX}, {}) :
        f \in {fRun, fParticle, fParticleParam, fDensity}}

FileInputs == UNION {Groupings(flat) : flat \in SeqsUpTo(FileTemplates, MaxContribs)}

\* Inputs about the merge: contributions to one template file that fill the
\* three buckets, with keys shared between buckets and empty fragments.
MergeTemplates ==
    {ObjectTemplate(fParticle, {}, {}, {}),
     ObjectTemplate(fParticle, {("a" :> s1) @@ ("K" :> s1)}, {}, {}),
     ObjectTemplate(fParticle, {"a" :> s2}, {}, {}),
     ObjectTemplate(fParticle, {}, {"K" :> sX}, {}),
     ObjectTemplate(fParticle, {}, {"K" :> sY}, {}),
     ObjectTemplate(fParticle, {}, {"K" :> sEmpty}, {}),
     ObjectTemplate(fParticle, {}, {EmptyDict}, {EmptyDict}),
     ObjectTemplate(fParticle, {}, {}, {"K" :> sX}),
     ObjectTemplate(fParticle, {}, {}, {"K" :> sEmpty}),
     ObjectTemplate(fParticle, {"a" :> s1}, {"a" :> sX}, {"a" :> sY})}

MergeInputs ==
    UNION {{OnePerObject(flat), <<[templates |-> flat]>>} :
             flat \in SeqsUpTo(MergeTemplates, MaxContribs) \ {<<>>}}

\* Inputs about the routing: one contribution to a file whose name is put
\* together from pieces, among them 'run', '.' and 'template'.
Pieces == {sRun, sDot, sTemplate, sTempla, sTe, <<"x">>}

RECURSIVE Concat(_)
Concat(ss) == IF ss = <<>> THEN <<>> ELSE Head(ss) \o Concat(Tail(ss))

FileNames ==
    {Concat(ps) : ps \in SeqsUpTo(Pieces, MaxPieces) \ {<<>>}}
        \cup {fRunner, fRunX}

RoutingInputs ==
    {<<[templates |-> <<ObjectTemplate(f, {}, {}, {})>>]>> : f \in FileNames}

Inputs == FileInputs \cup MergeInputs \cup RoutingInputs

\* All contributions of the objects, in the order the loops visit them.
RECURSIVE Flat(_)
Flat(os) == IF os = <<>> THEN <<>> ELSE Head(os).templates \o Flat(Tail(os))

Referenced(os) == {Flat(os)[k].filename : k \in 1..Len(Flat(os))}

\* The contents of the templates folder: every referenced file has a template,
\* or all but one have.
TemplateDirs(os) == {Referenced(os)} \cup {Referenced(os) \ {f} : f \in Referenced(os)}


\* ------------------------------------------------------------------- state

VARIABLES
    objs,                         \* the argument of WriteSimulationFiles
    templateFiles,                \* the file names present under templatePath
    disk,                         \* the output tree: path -> text written
    pc,                           \* position in WriteSimulationFiles
    FilesList,                    \* the template files affected by the objects
    idx,                          \* index in FilesList of the loop's filename
    templateMainArgs,
    templateAppendableArgs,
    templateCommaAppendableArgs,
    templateArgs,
    filename_dest,
    stdout,                       \* the lines printed by the current call
    written,                      \* what the current call wrote: filename, path, text
    runs,                         \* the calls started so far
    diskBefore                    \* the output tree when the current call started

vars ==
    <<objs, templateFiles, disk, pc, FilesList, idx, templateMainArgs,
      templateAppendableArgs, templateCommaAppendableArgs, templateArgs,
      filename_dest, stdout, written, runs, diskBefore>>

\* --------------------------------------------------------------- operations

\* ListFiles looking at the first template of each object only.
ListFiles_FirstOnly(list, ts) ==
    IF ts = <<>> \/ \E k \in 1..Len(list) : list[k] = Head(ts).filename
    THEN list
    ELSE Append(list, Head(ts).filename)

\* ListFiles putting a new file name in front of the list.
RECURSIVE ListFiles_Prepending(_, _)
ListFiles_Prepending(list, ts) ==
    IF ts = <<>>
    THEN list
    ELSE ListFiles_Prepending(
           IF \E k \in 1..Len(list) : list[k] = Head(ts).filename
           THEN list
           ELSE <<Head(ts).filename>> \o list,
           Tail(ts))

\* The nested loops over objs and obj.templates that fill FilesList.
RECURSIVE ListFiles(_, _)
ListFiles(list, ts) ==
    IF ts = <<>>
    THEN list
    ELSE ListFiles(
           IF \E k \in 1..Len(list) : list[k] = Head(ts).filename
           THEN list
           ELSE Append(list, Head(ts).filename),
           Tail(ts))

RECURSIVE ListAllFiles(_, _)
ListAllFiles(list, os) ==
    IF os = <<>>
    THEN list
    ELSE ListAllFiles(ListFiles(list, Head(os).templates), Tail(os))

\* The loop over the keys of one appendable bucket of objectTemplate: each
\* fragment is appended to the list kept under its key.
AppendArgs(lists, args) ==
    [k \in DOMAIN lists \cup DOMAIN args |->
        IF k \in DOMAIN args
        THEN Append(IF k \in DOMAIN lists THEN lists[k] ELSE <<>>, args[k])
        ELSE lists[k]]

\* The new dictionaries of one iteration of the loop over FilesList.
NewArgs == [main |-> EmptyDict, app |-> EmptyDict, comma |-> EmptyDict]

\* GatherArgs updating the main arguments key by key.
GatherArgs_MainUpdated(acc, objectTemplate, filename) ==
    IF objectTemplate.filename # filename
    THEN acc
    ELSE [main |-> IF "MainArgs" \in DOMAIN objectTemplate
                   THEN DictUnion(acc.main, objectTemplate.MainArgs)
                   ELSE acc.main,
          app |-> IF "AppendableArgs" \in DOMAIN objectTemplate
                  THEN AppendArgs(acc.app, objectTemplate.AppendableArgs)
                  ELSE acc.app,
          comma |-> IF "CommaAppendableArgs" \in DOMAIN objectTemplate
                    THEN AppendArgs(acc.comma, objectTemplate.CommaAppendableArgs)
                    ELSE acc.comma]

\* What one objectTemplate adds to the three dictionaries of filename.
GatherArgs(acc, objectTemplate, filename) ==
    IF objectTemplate.filename # filename
    THEN acc
    ELSE [main |-> IF "MainArgs" \in DOMAIN objectTemplate
                   THEN objectTemplate.MainArgs
                   ELSE acc.main,
          app |-> IF "AppendableArgs" \in DOMAIN objectTemplate
                  THEN AppendArgs(acc.app, objectTemplate.AppendableArgs)
                  ELSE acc.app,
          comma |-> IF "CommaAppendableArgs" \in DOMAIN objectTemplate
                    THEN AppendArgs(acc.comma, objectTemplate.CommaAppendableArgs)
                    ELSE acc.comma]

RECURSIVE GatherTemplates(_, _, _)
GatherTemplates(acc, ts, filename) ==
    IF ts = <<>>
    THEN acc
    ELSE GatherTemplates(GatherArgs(acc, Head(ts), filename), Tail(ts), filename)

RECURSIVE GatherObjects(_, _, _)
GatherObjects(acc, os, filename) ==
    IF os = <<>>
    THEN acc
    ELSE GatherObjects(GatherTemplates(acc, Head(os).templates, filename),
                       Tail(os), filename)

\* JoinAppendable joining with the separator of the other bucket.
JoinAppendable_CommaSeparated(lists) ==
    [k \in DOMAIN lists |-> StrJoin(CommaNL, lists[k])]

\* The appendable lists joined by a newline.
JoinAppendable(lists) == [k \in DOMAIN lists |-> StrJoin(NL, lists[k])]

\* The comma-appendable lists joined by a comma and a newline; a list of
\* length 0 would be left as it is.
JoinCommaAppendable(lists) ==
    [k \in DOMAIN lists |->
        IF Len(lists[k]) > 0 THEN StrJoin(CommaNL, lists[k]) ELSE lists[k]]

\* MergedArgs unpacking the main arguments last.
MergedArgs_MainLast(main, app, comma) == DictUnion(DictUnion(comma, app), main)

\* The dictionary passed to template.render.
MergedArgs(main, app, comma) == DictUnion(DictUnion(main, app), comma)

\* Destination testing whether the name starts with 'run'.
Destination_Prefix(filename) ==
    IF Len(filename) >= 3 /\ SubSeq(filename, 1, 3) = sRun
    THEN [dir |-> path_etc, name |-> StrReplace(filename, sTemplate, sCfg)]
    ELSE [dir |-> path_include, name |-> StrReplace(filename, sTemplate, sParam)]

\* The folder and the name of the file written for filename.
Destination(filename) ==
    IF SplitFirst(filename, sDot) = sRun
    THEN [dir |-> path_etc, name |-> StrReplace(filename, sTemplate, sCfg)]
    ELSE [dir |-> path_include, name |-> StrReplace(filename, sTemplate, sParam)]

\* The text template.render returns (the engine is not part of the repository).
Render(filename, args) == [template |-> filename, args |-> args]

\* WriteLines on a file opened with mode='a'.
WriteLines_Appending(fs, path, text) ==
    [p \in DOMAIN fs \cup {path} |->
        IF p = path
        THEN (IF p \in DOMAIN fs THEN fs[p] ELSE <<>>) \o <<text>>
        ELSE fs[p]]

\* open(path, mode='w') followed by file.writelines(text): the file holds the
\* text alone, whatever it held before.
WriteLines(fs, path, text) ==
    [p \in DOMAIN fs \cup {path} |-> IF p = path THEN <<text>> ELSE fs[p]]

\* ----------------------------------------------------------------- actions

Init ==
    /\ objs \in Inputs
    /\ templateFiles \in TemplateDirs(objs)
    /\ disk = EmptyDict
    /\ pc = "idle"
    /\ FilesList = <<>>
    /\ idx = 0
    /\ templateMainArgs = EmptyDict
    /\ templateAppendableArgs = EmptyDict
    /\ templateCommaAppendableArgs = EmptyDict
    /\ templateArgs = EmptyDict
    /\ filename_dest = <<>>
    /\ stdout = <<>>
    /\ written = <<>>
    /\ runs = 0
    /\ diskBefore = EmptyDict

\* WriteSimulationFiles(objs) is called: the files are listed.
Call ==
    /\ pc \in {"idle", "returned", "raised"}
    /\ runs < MaxRuns
    /\ runs' = runs + 1
    /\ diskBefore' = disk
    /\ FilesList' = ListAllFiles(<<>>, objs)
    /\ idx' = 1
    /\ templateMainArgs' = EmptyDict
    /\ templateAppendableArgs' = EmptyDict
    /\ templateCommaAppendableArgs' = EmptyDict
    /\ templateArgs' = EmptyDict
    /\ filename_dest' = <<>>
    /\ stdout' = <<>>
    /\ written' = <<>>
    /\ pc' = "loop"
    /\ UNCHANGED <<objs, templateFiles, disk>>

\* The next filename has a template: its arguments are gathered and merged.
Gather ==
    /\ pc = "loop"
    /\ idx <= Len(FilesList)
    /\ FilesList[idx] \in templateFiles
    /\ LET acc == GatherObjects(NewArgs, objs, FilesList[idx])
           app == JoinAppendable(acc.app)
           comma == JoinCommaAppendable(acc.comma)
       IN  /\ templateMainArgs' = acc.main
           /\ templateAppendableArgs' = app
           /\ templateCommaAppendableArgs' = comma
           /\ templateArgs' = MergedArgs(acc.main, app, comma)
    /\ pc' = "merged"
    /\ UNCHANGED <<objs, templateFiles, disk, FilesList, idx, filename_dest,
                   stdout, written, runs, diskBefore>>

\* NoTemplate with the destination opened before the template is looked up.
NoTemplate_AfterOpen ==
    /\ pc = "loop"
    /\ idx <= Len(FilesList)
    /\ FilesList[idx] \notin templateFiles
    /\ disk' = [p \in DOMAIN disk \cup
                      {Destination(FilesList[idx]).dir \o Destination(FilesList[idx]).name} |->
                  IF p = Destination(FilesList[idx]).dir \o Destination(FilesList[idx]).name
                  THEN <<>>
                  ELSE disk[p]]
    /\ pc' = "raised"
    /\ UNCHANGED <<objs, templateFiles, FilesList, idx, templateMainArgs,
                   templateAppendableArgs, templateCommaAppendableArgs,
                   templateArgs, filename_dest, stdout, written, runs, diskBefore>>

\* The next filename has no template: Template(filename=...) raises and the
\* call ends there.
NoTemplate ==
    /\ pc = "loop"
    /\ idx <= Len(FilesList)
    /\ FilesList[idx] \notin templateFiles
    /\ pc' = "raised"
    /\ UNCHANGED <<objs, templateFiles, disk, FilesList, idx, templateMainArgs,
                   templateAppendableArgs, templateCommaAppendableArgs,
                   templateArgs, filename_dest, stdout, written, runs, diskBefore>>

\* The rendered template is written to its destination.
Write ==
    /\ pc = "merged"
    /\ LET dest == Destination(FilesList[idx])
           path == dest.dir \o dest.name
       IN  /\ filename_dest' = dest.name
           /\ disk' = WriteLines(disk, path, Render(FilesList[idx], templateArgs))
           /\ written' = Append(written,
                                [filename |-> FilesList[idx], path |-> path,
                                 text |-> Render(FilesList[idx], templateArgs)])
    /\ pc' = "written"
    /\ UNCHANGED <<objs, templateFiles, FilesList, idx, templateMainArgs,
                   templateAppendableArgs, templateCommaAppendableArgs,
                   templateArgs, stdout, runs, diskBefore>>

\* print(filename_dest), and the loop goes on to the next filename.
Report ==
    /\ pc = "written"
    /\ stdout' = Append(stdout, filename_dest)
    /\ idx' = idx + 1
    /\ pc' = "loop"
    /\ UNCHANGED <<objs, templateFiles, disk, FilesList, templateMainArgs,
                   templateAppendableArgs, templateCommaAppendableArgs,
                   templateArgs, filename_dest, written, runs, diskBefore>>

\* FilesList is exhausted: the call returns.
Return ==
    /\ pc = "loop"
    /\ idx > Len(FilesList)
    /\ pc' = "returned"
    /\ UNCHANGED <<objs, templateFiles, disk, FilesList, idx, templateMainArgs,
                   templateAppendableArgs, templateCommaAppendableArgs,
                   templateArgs, filename_dest, stdout, written, runs, diskBefore>>

Next == Call \/ Gather \/ NoTemplate \/ Write \/ Report \/ Return

Spec == Init /\ [][Next]_vars


\* ------------------------------------------------- what the claims speak of

Keys == {"K", "a"}

\* The contributions to file f, in object order, then construction order.
ContributionsTo(f) == SelectSeq(Flat(objs), LAMBDA c : c.filename = f)

\* The values the contributions to f give for key under the bucket.
Supplies(c, bucket, key) == bucket \in DOMAIN c /\ key \in DOMAIN c[bucket]

Fragments(f, bucket, key) ==
    LET cs == SelectSeq(ContributionsTo(f), LAMBDA c : Supplies(c, bucket, key))
    IN  [k \in 1..Len(cs) |-> cs[k][bucket][key]]

\* f1 + sep + f2 + ... + sep + fn, for n >= 1.
RECURSIVE Glued(_, _, _)
Glued(fs, sep, n) ==
    IF n = 1 THEN fs[1] ELSE Glued(fs, sep, n - 1) \o sep \o fs[n]

\* The MainArgs of the last contribution to f that carries MainArgs.
LastMainArgs(f) ==
    LET cs == SelectSeq(ContributionsTo(f), LAMBDA c : "MainArgs" \in DOMAIN c)
    IN  IF cs = <<>> THEN EmptyDict ELSE cs[Len(cs)].MainArgs

\* The render context of the current file is in templateArgs.
HasContext == pc \in {"merged", "written"}

current == FilesList[idx]

Binds(key, value) == key \in DOMAIN templateArgs /\ templateArgs[key] = value


\* ------------------------------------------------------------------ claims

\* C1 as stated: for every key K that contributions to the current file
\* supply as AppendableArgs, with fragments f1..fn in contribution order, the
\* render context binds K to f1 + "\n" + f2 + ... + "\n" + fn.
C1_AppendableJoined ==
    HasContext =>
        \A K \in Keys :
            LET fs == Fragments(current, "AppendableArgs", K)
            IN  fs # <<>> => Binds(K, Glued(fs, NL, Len(fs)))

\* C1 amended: the same, for every key K that no contribution to the current
\* file supplies as CommaAppendableArgs as well.
C1_AppendableJoinedUnlessComma ==
    HasContext =>
        \A K \in Keys :
            LET fs == Fragments(current, "AppendableArgs", K)
            IN  (fs # <<>> /\ Fragments(current, "CommaAppendableArgs", K) = <<>>)
                    => Binds(K, Glued(fs, NL, Len(fs)))

\* C1 witness: object A gives K = "X" and object B gives K = "Y" for
\* particle.template, and the context is exactly K = "X\nY".
C1_Witness ==
    /\ HasContext
    /\ Len(objs) = 2
    /\ current = fParticle
    /\ Fragments(current, "AppendableArgs", "K") = <<sX, sY>>
    /\ templateArgs = ("K" :> <<"X", "\n", "Y">>)

\* C2 as stated: a key K (of no other bucket of the current file) whose
\* CommaAppendableArgs fragments are all empty strings, or which no
\* contribution supplies, is not a key of the render context.
C2_EmptyCommaKeyDropped ==
    HasContext =>
        \A K \in Keys :
            LET fs == Fragments(current, "CommaAppendableArgs", K)
            IN  (/\ \A k \in 1..Len(fs) : fs[k] = <<>>
                 /\ Fragments(current, "AppendableArgs", K) = <<>>
                 /\ \A k \in 1..Len(ContributionsTo(current)) :
                        ~Supplies(ContributionsTo(current)[k], "MainArgs", K))
                    => K \notin DOMAIN templateArgs

\* C3: the main-args dictionary of the current file is the MainArgs of the
\* last contribution carrying MainArgs (empty when none does), as a whole:
\* under every key that is in neither appendable bucket the render context
\* has that dictionary's value, and no value when the dictionary has none.
C3_LastMainArgsWin ==
    HasContext =>
        /\ templateMainArgs = LastMainArgs(current)
        /\ \A K \in Keys :
               (/\ Fragments(current, "AppendableArgs", K) = <<>>
                /\ Fragments(current, "CommaAppendableArgs", K) = <<>>)
                   => IF K \in DOMAIN LastMainArgs(current)
                      THEN Binds(K, LastMainArgs(current)[K])
                      ELSE K \notin DOMAIN templateArgs

\* C3 witness: MainArgs {a: 1, K: 1} followed by MainArgs {a: 2} for one
\* file: a is 2 and K is absent.
C3_Witness ==
    /\ HasContext
    /\ Len(ContributionsTo(current)) = 2
    /\ ContributionsTo(current)[1] = ObjectTemplate(fParticle, {("a" :> s1) @@ ("K" :> s1)}, {}, {})
    /\ ContributionsTo(current)[2] = ObjectTemplate(fParticle, {"a" :> s2}, {}, {})
    /\ templateArgs = ("a" :> s2)

\* C10: under every key the render context has exactly one value, chosen by
\* bucket precedence: the ",\n"-joined CommaAppendableArgs fragments if there
\* are any, else the "\n"-joined AppendableArgs fragments if there are any,
\* else the value of the main-args dictionary, else none.
C10_BucketPrecedence ==
    HasContext =>
        \A K \in Keys :
            LET cs == Fragments(current, "CommaAppendableArgs", K)
                as == Fragments(current, "AppendableArgs", K)
            IN  IF cs # <<>> THEN Binds(K, Glued(cs, CommaNL, Len(cs)))
                ELSE IF as # <<>> THEN Binds(K, Glued(as, NL, Len(as)))
                ELSE IF K \in DOMAIN LastMainArgs(current)
                     THEN Binds(K, LastMainArgs(current)[K])
                     ELSE K \notin DOMAIN templateArgs

\* C10 witness: one key in all three buckets and another in the main-args
\* dictionary alone.
C10_Witness ==
    /\ HasContext
    /\ "a" \in DOMAIN templateMainArgs
    /\ "a" \in DOMAIN templateAppendableArgs
    /\ "a" \in DOMAIN templateCommaAppendableArgs
    /\ "K" \in DOMAIN templateMainArgs
    /\ "K" \notin DOMAIN templateAppendableArgs
    /\ "K" \notin DOMAIN templateCommaAppendableArgs
    /\ DOMAIN templateArgs = {"a", "K"}


\* The template files the current call has written, as a set.
WrittenFiles == {written[k].filename : k \in 1..Len(written)}

\* C4: when every referenced file has a template the call does not raise, and
\* when the call has returned the template files it rendered and wrote are
\* exactly the file names referenced by the contributions of the objects,
\* each with a file on disk.
C4_WrittenIsReferenced ==
    /\ (Referenced(objs) \subseteq templateFiles) => pc # "raised"
    /\ pc = "returned" =>
           /\ WrittenFiles = Referenced(objs)
           /\ \A k \in 1..Len(written) : written[k].path \in DOMAIN disk

\* C4 witness: a call that has returned after writing three template files
\* referenced by two objects.
C4_Witness ==
    /\ pc = "returned"
    /\ Len(objs) = 2
    /\ Cardinality(Referenced(objs)) = 3
    /\ Cardinality(WrittenFiles) = 3

\* The first dot-separated segment of f is 'run'.
IsRunFile(f) == f = sRun \/ (Len(f) >= 4 /\ SubSeq(f, 1, 4) = sRun \o sDot)

\* The places where old occurs in s.
Occurrences(s, old) ==
    {p \in 1..(Len(s) - Len(old) + 1) : SubSeq(s, p, p + Len(old) - 1) = old}

\* The occurrences that are replaced: those not overlapped by a replaced
\* occurrence further left.
Replaced(s, old) ==
    CHOOSE M \in SUBSET Occurrences(s, old) :
        \A q \in Occurrences(s, old) :
            q \in M <=> ~\E p \in M : p < q /\ q < p + Len(old)

\* s with the replaced occurrences of old turned into new.
Substituted(s, old, new) ==
    LET M == Replaced(s, old)
    IN  Concat([i \in 1..Len(s) |->
                  IF i \in M THEN new
                  ELSE IF \E p \in M : p < i /\ i < p + Len(old) THEN <<>>
                  ELSE <<s[i]>>])

\* C5: every file the call writes goes to ./etc/picongpu/ under its name with
\* 'template' replaced by 'cfg' if the first dot-separated segment of the
\* name is 'run', and otherwise to ./include/picongpu/param/ under its name
\* with 'template' replaced by 'param'; 'runner.template' is written as
\* ./include/picongpu/param/runner.param and 'run.x.template' as
\* ./etc/picongpu/run.x.cfg.
C5_Routing ==
    /\ \A k \in 1..Len(written) :
           LET f == written[k].filename
           IN  /\ written[k].path =
                     IF IsRunFile(f)
                     THEN path_etc \o Substituted(f, sTemplate, sCfg)
                     ELSE path_include \o Substituted(f, sTemplate, sParam)
               /\ f = fRunner =>
                     written[k].path = path_include \o sRunner \o sDot \o sParam
               /\ f = fRunX =>
                     written[k].path = path_etc \o sRun \o sDot \o <<"x">> \o sDot \o sCfg
    /\ pc = "written" =>
           written[idx].path \in {path_etc \o filename_dest, path_include \o filename_dest}

\* C5 witness: 'runner.template' has been written to the parameter folder.
C5_Witness ==
    /\ pc = "written"
    /\ current = fRunner
    /\ filename_dest = sRunner \o sDot \o sParam
    /\ path_include \o filename_dest \in DOMAIN disk
    /\ path_etc \o filename_dest \notin DOMAIN disk

\* C6 as stated: in one call no destination path is written twice, neither
\* for two distinct template files nor for the same one.
C6_EachPathWrittenOnce ==
    \A j, k \in 1..Len(written) :
        j # k => /\ written[j].path # written[k].path
                 /\ written[j].filename # written[k].filename

\* The place of the first contribution to f among all contributions.
FirstSeen(f) ==
    CHOOSE k \in 1..Len(Flat(objs)) :
        /\ Flat(objs)[k].filename = f
        /\ \A j \in 1..(k - 1) : Flat(objs)[j].filename # f

\* C9: FilesList holds each referenced file name once, in the order of the
\* first contribution to it; the files are written and reported in that
\* order, and the name a file was written under is printed after the file is
\* written and before the arguments of the next file are gathered.
C9_DiscoveryOrder ==
    pc \notin {"idle"} =>
        /\ {FilesList[k] : k \in 1..Len(FilesList)} = Referenced(objs)
        /\ \A j, k \in 1..Len(FilesList) :
               j < k => FirstSeen(FilesList[j]) < FirstSeen(FilesList[k])
        /\ \A k \in 1..Len(written) : written[k].filename = FilesList[k]
        /\ \A k \in 1..Len(stdout) :
               written[k].path \in {path_etc \o stdout[k], path_include \o stdout[k]}
        /\ Len(stdout) = idx - 1
        /\ Len(written) = IF pc = "written" THEN idx ELSE idx - 1

\* C9 witness: the second of two files has been written and not yet reported,
\* the first of them being referenced again after the second.
C9_Witness ==
    /\ pc = "written"
    /\ idx = 2
    /\ Len(FilesList) = 2
    /\ Len(Flat(objs)) = 3
    /\ Flat(objs)[3].filename = FilesList[1]
    /\ Len(stdout) = 1


\* The text the current call wrote last to the path of its k-th write.
LastWritten(k) ==
    LET j == CHOOSE j \in 1..Len(written) :
                 /\ written[j].path = written[k].path
                 /\ \A i \in (j + 1)..Len(written) : written[i].path # written[k].path
    IN  written[j].text

\* C7: a call that raised stopped at a file without a template, having
\* written and reported exactly the files before it in FilesList, whose
\* destinations hold the text this call wrote; and the step that raises
\* writes no file and prints nothing.
C7_AbortAtMissingTemplate ==
    /\ [](pc = "raised" =>
            /\ idx \in 1..Len(FilesList)
            /\ FilesList[idx] \notin templateFiles
            /\ [k \in 1..Len(written) |-> written[k].filename]
                   = SubSeq(FilesList, 1, idx - 1)
            /\ Len(stdout) = idx - 1
            /\ \A k \in 1..Len(written) :
                   /\ written[k].path \in DOMAIN disk
                   /\ disk[written[k].path] = <<LastWritten(k)>>)
    /\ [][pc' = "raised" =>
            /\ disk' = disk
            /\ stdout' = stdout
            /\ written' = written]_vars

\* C7 witness: of three files the second has no template; the call raised
\* after writing and reporting the first.
C7_Witness ==
    /\ pc = "raised"
    /\ Len(FilesList) = 3
    /\ idx = 2
    /\ Len(written) = 1
    /\ Len(stdout) = 1
    /\ Cardinality(DOMAIN disk) = 1

\* C8: when a second (or later) call with the same objects and templates has
\* ended, every destination file holds what it held when that call started,
\* that is, what the call before left; and no step changes the objects or the
\* templates.
C8_IdempotentRerun ==
    /\ []((runs >= 2 /\ pc \in {"returned", "raised"}) => disk = diskBefore)
    /\ [][objs' = objs /\ templateFiles' = templateFiles]_vars

\* C8 witness: a second call has returned after writing two files.
C8_Witness ==
    /\ runs = 2
    /\ pc = "returned"
    /\ Len(written) = 2
    /\ Cardinality(DOMAIN disk) = 2
    /\ disk = diskBefore

====
